---- MODULE Spec2Model ----
\* A model of the peace-table piece table (src/src/lib.rs and its helper
\* modules), built with the `lines` feature on, `unicode-line-breaks` off.
\* Strings are sequences of UTF-8 bytes; byte offsets, char indices and piece
\* indices are 0-based as in the source.
EXTENDS Integers, Sequences, FiniteSets, TLC

\* ---------------------------------------------------------------------------
\* Bounds of the exploration
\* ---------------------------------------------------------------------------
\* number of insert and remove calls explored in one run
MaxCalls == 3
\* how far past len_chars the explored char indices reach
IdxSlack == 1
\* number of inserts of a run of contiguous inserts on a new table
MaxRun == 5
\* number of insert and remove calls made before a pair of contiguous inserts
MaxPrefix == 1
\* number of contiguous inserts made after such calls
PairLen == 2
\* number of insert and remove calls made before a Slice is iterated
MaxSliceCalls == 2

\* ---------------------------------------------------------------------------
\* Bytes and strings
\* ---------------------------------------------------------------------------
LF == 10
CR == 13
\* the two UTF-8 bytes of U+00E9, a char of more than one byte
EAcute == <<195, 169>>

\* Option::None of an Option<usize>
None == -1

NoPanic == ""
PanicIndexOutOfBounds == "index out of bounds"
PanicUnreachable == "internal error: entered unreachable code"
PanicCrlf == "inserting inside a CRLF sequece is invalid"
PanicSliceIndex == "range start index out of range for slice"
PanicStrSlice == "byte index is out of bounds or not a char boundary"
PanicVecIndex == "index out of bounds of Vec"
PanicOverflow == "attempt to subtract with overflow"
PanicDebugAssert == "debug assertion failed"
PanicLineIndex == "line index out of bounds"

\* the initial documents explored
InitialTexts ==
  { <<>>, <<97, 98>>, EAcute \o <<CR, LF, 98>> }

\* the inserted texts explored
InsertTexts ==
  { <<>>, <<120>>, <<LF>>, <<CR>>, <<CR, LF>>, EAcute \o <<120>> }

\* a UTF-8 continuation byte (10xxxxxx)
IsCont(b) == b >= 128 /\ b < 192

\* &s[a..b] of a Vec or of a str whose bounds were already checked
Range(s, a, b) == SubSeq(s, a + 1, b)

\* str::is_char_boundary
IsCharBoundary(s, i) ==
  i = 0 \/ i = Len(s) \/ (i > 0 /\ i < Len(s) /\ ~IsCont(s[i + 1]))

\* whether &s[a..b] of a str returns (it panics otherwise)
StrRangeOk(s, a, b) ==
  a <= b /\ b <= Len(s) /\ IsCharBoundary(s, a) /\ IsCharBoundary(s, b)

\* str_indices::chars::count
count_chars(s) == Cardinality({i \in 1..Len(s) : ~IsCont(s[i])})

\* a to_byte_idx that takes every char for one byte
char_to_byte_ascii(s, char_idx) ==
  IF char_idx > Len(s) THEN Len(s) ELSE char_idx

\* str_indices::chars::to_byte_idx: the byte offset of the char_idx-th char,
\* the length of the string when char_idx is past the end
char_to_byte(s, char_idx) ==
  LET starts == {b \in 0..(Len(s) - 1) :
                   /\ ~IsCont(s[b + 1])
                   /\ count_chars(Range(s, 0, b)) = char_idx}
  IN IF starts = {} THEN Len(s) ELSE CHOOSE b \in starts : TRUE

\* line::Break::len_bytes
BreakLenBytes(ty) == IF ty = "Crlf" THEN 2 ELSE 1

\* the loop of str_utils::line_breaks from byte i on: the entries pushed and
\* the counter returned
RECURSIVE ScanFrom(_, _, _)
ScanFrom(text, i, base_idx) ==
  IF i >= Len(text) THEN [v |-> <<>>, n |-> 0]
  ELSE LET byte == text[i + 1] IN
    IF byte = LF
    THEN LET r == ScanFrom(text, i + 1, base_idx)
         IN [v |-> <<<<i + base_idx, "Lf">>>> \o r.v, n |-> r.n + 1]
    ELSE IF byte = CR
    THEN IF i + 1 < Len(text) /\ text[i + 2] = LF
         THEN LET r == ScanFrom(text, i + 2, base_idx)
              IN [v |-> <<<<i + base_idx, "Crlf">>>> \o r.v, n |-> r.n + 1]
         ELSE LET r == ScanFrom(text, i + 1, base_idx)
              IN [v |-> r.v, n |-> r.n + 1]
    ELSE ScanFrom(text, i + 1, base_idx)

\* str_utils::line_breaks(text, v, base_idx): the registry after the call and
\* the returned count
line_breaks(text, v, base_idx) ==
  LET r == ScanFrom(text, 0, base_idx)
  IN [v |-> v \o r.v, n |-> r.n]

\* ---------------------------------------------------------------------------
\* The table
\* ---------------------------------------------------------------------------
VARIABLES
  pieces,        \* Vec<Piece>
  buffers,       \* Buffers: original and add, each content + line_breaks
  len_bytes,
  len_chars,
  len_lines,
  last_insert,   \* Option<(char_idx, piece_idx)>
  contiguous_inserts, \* whether the build has the contiguous-inserts feature
  call,          \* the last call made on the table and how it ended
  inserts,       \* number of insert calls made
  removes,       \* number of remove calls made
  twin           \* the run of contiguous inserts in progress, and the tables
                 \* it is compared with

vars == <<pieces, buffers, len_bytes, len_chars, len_lines, last_insert,
          contiguous_inserts, call, inserts, removes, twin>>

NoInsert == [some |-> FALSE, i |-> 0, p |-> 0]

\* a last_insert that names the piece after the one inserted to
SomeInsertNext(i, p) == [some |-> TRUE, i |-> i, p |-> p + 1]
SomeInsert(i, p) == [some |-> TRUE, i |-> i, p |-> p]

\* Buffers::from_initial
from_initial(initial) ==
  [original |-> [content |-> initial,
                 line_breaks |-> line_breaks(initial, <<>>, 0).v],
   add |-> [content |-> <<>>, line_breaks |-> <<>>]]

\* a new that takes chars for bytes and never records a first line break
new_bytes(initial, feature) ==
  LET b == from_initial(initial)
      initial_piece ==
        [buffer |-> "Original", start |-> 0, len_bytes |-> Len(initial),
         len_chars |-> Len(initial), first_line_break |-> None]
  IN [pieces |-> <<initial_piece>>, buffers |-> b,
      len_bytes |-> Len(initial), len_chars |-> Len(initial),
      len_lines |-> Len(b.original.line_breaks) + 1,
      last_insert |-> NoInsert, contiguous |-> feature, panic |-> NoPanic]

\* PieceTable::new, as the record of the fields of the table; `panic` is the
\* panic raised by the call in progress, NoPanic while there is none
new(initial, feature) ==
  LET b == from_initial(initial)
      initial_piece ==
        [buffer |-> "Original", start |-> 0, len_bytes |-> Len(initial),
         len_chars |-> count_chars(initial),
         first_line_break |->
           IF b.original.line_breaks = <<>> THEN None ELSE 0]
  IN [pieces |-> <<initial_piece>>, buffers |-> b,
      len_bytes |-> Len(initial), len_chars |-> count_chars(initial),
      len_lines |-> Len(b.original.line_breaks) + 1,
      last_insert |-> NoInsert, contiguous |-> feature, panic |-> NoPanic]

\* the table the variables hold
Self ==
  [pieces |-> pieces, buffers |-> buffers, len_bytes |-> len_bytes,
   len_chars |-> len_chars, len_lines |-> len_lines,
   last_insert |-> last_insert, contiguous |-> contiguous_inserts,
   panic |-> NoPanic]

\* the same table in a build with (debug) or without debug assertions
InBuild(t, debug) ==
  [pieces |-> t.pieces, buffers |-> t.buffers, len_bytes |-> t.len_bytes,
   len_chars |-> t.len_chars, len_lines |-> t.len_lines,
   last_insert |-> t.last_insert, contiguous |-> t.contiguous,
   panic |-> t.panic, debug |-> debug]

\* Index<BufferType> for Buffers
Content(t, buffer) ==
  IF buffer = "Original" THEN t.buffers.original.content
  ELSE t.buffers.add.content

\* Buffers::line_breaks
Registry(t, buffer) ==
  IF buffer = "Original" THEN t.buffers.original.line_breaks
  ELSE t.buffers.add.line_breaks

\* Piece::byte_range().end
RangeEnd(piece) == piece.start + piece.len_bytes

Panicked(t, msg) == [t EXCEPT !.panic = msg]

\* a Vec::insert that overwrites the element at index when there is one
VecInsertOver(v, index, x) ==
  Range(v, 0, index) \o <<x>> \o Range(v, index + 1, Len(v))

\* Vec::insert
VecInsert(v, index, x) ==
  Range(v, 0, index) \o <<x>> \o Range(v, index, Len(v))

\* Vec::remove
VecRemove(v, index) == Range(v, 0, index) \o Range(v, index + 1, Len(v))

\* the first entry of registry[from..] satisfying the byte range [lo, hi), as
\* Iterator::find returns it: its position in the registry, None if there is
\* none
FindIn(registry, from, lo, hi) ==
  LET hits == {k \in from..(Len(registry) - 1) :
                 registry[k + 1][1] >= lo /\ registry[k + 1][1] < hi}
  IN IF hits = {} THEN None
     ELSE CHOOSE k \in hits : \A j \in hits : k <= j

\* the sum of len_chars over the first n pieces
RECURSIVE SumChars(_, _)
SumChars(ps, n) == IF n = 0 THEN 0 ELSE SumChars(ps, n - 1) + ps[n].len_chars

\* the sum of len_bytes over the first n pieces
RECURSIVE SumBytes(_, _)
SumBytes(ps, n) == IF n = 0 THEN 0 ELSE SumBytes(ps, n - 1) + ps[n].len_bytes

\* PieceTable::piece_at_char
piece_at_char(t, char_idx) ==
  IF ~(char_idx <= t.len_chars)
  THEN [panic |-> PanicIndexOutOfBounds, piece_idx |-> 0, relative_idx |-> 0]
  ELSE LET hits == {i \in 0..(Len(t.pieces) - 1) :
                      SumChars(t.pieces, i + 1) >= char_idx}
       IN IF hits = {}
          THEN [panic |-> PanicUnreachable, piece_idx |-> 0,
                relative_idx |-> 0]
          ELSE LET i == CHOOSE k \in hits : \A j \in hits : k <= j
               IN [panic |-> NoPanic, piece_idx |-> i,
                   relative_idx |-> char_idx - SumChars(t.pieces, i)]

\* an insert_piece that writes the text over the add buffer
insert_piece_over(t, index, text) ==
  LET scanned == line_breaks(text, <<>>, 0)
      piece == [buffer |-> "Add", start |-> 0,
                first_line_break |-> IF scanned.v = <<>> THEN None ELSE 0,
                len_chars |-> count_chars(text), len_bytes |-> Len(text)]
  IN IF index > Len(t.pieces) THEN Panicked(t, PanicVecIndex)
     ELSE [t EXCEPT !.len_lines = @ + scanned.n,
                    !.buffers.add.line_breaks = scanned.v,
                    !.buffers.add.content = text,
                    !.pieces = VecInsert(@, index, piece)]

\* PieceTable::insert_piece
insert_piece(t, index, text) ==
  LET add == t.buffers.add
      first_lb == Len(add.line_breaks)
      scanned == line_breaks(text, add.line_breaks, Len(add.content))
      piece == [buffer |-> "Add", start |-> Len(add.content),
                first_line_break |->
                  IF first_lb < Len(scanned.v) THEN first_lb ELSE None,
                len_chars |-> count_chars(text), len_bytes |-> Len(text)]
  IN IF index > Len(t.pieces) THEN Panicked(t, PanicVecIndex)
     ELSE [t EXCEPT !.len_lines = @ + scanned.n,
                    !.buffers.add.line_breaks = scanned.v,
                    !.buffers.add.content = @ \o text,
                    !.pieces = VecInsert(@, index, piece)]

\* extend_piece writing the text to the add buffer without growing the piece
extend_piece_lost(t, text, text_len_chars, piece_idx) ==
  IF piece_idx >= Len(t.pieces) THEN Panicked(t, PanicVecIndex)
  ELSE LET scanned == line_breaks(text, t.buffers.add.line_breaks,
                                  RangeEnd(t.pieces[piece_idx + 1]))
       IN [t EXCEPT !.len_lines = @ + scanned.n,
                    !.buffers.add.line_breaks = scanned.v,
                    !.buffers.add.content = @ \o text]

\* PieceTable::extend_piece
extend_piece(t, text, text_len_chars, piece_idx) ==
  IF piece_idx >= Len(t.pieces) THEN Panicked(t, PanicVecIndex)
  ELSE LET piece == t.pieces[piece_idx + 1]
           add == t.buffers.add
           scanned == line_breaks(text, add.line_breaks, RangeEnd(piece))
       IN IF t.debug /\ ~(piece.buffer = "Add"
                          /\ Len(add.content) = RangeEnd(piece))
          THEN Panicked(t, PanicDebugAssert)
          ELSE [t EXCEPT !.len_lines = @ + scanned.n,
                         !.buffers.add.line_breaks = scanned.v,
                         !.pieces[piece_idx + 1].len_bytes = @ + Len(text),
                         !.pieces[piece_idx + 1].len_chars =
                            @ + text_len_chars,
                         !.buffers.add.content = @ \o text]

\* PieceTable::split_piece_and_insert
split_piece_and_insert(t, piece_idx, char_idx, text) ==
  LET piece == t.pieces[piece_idx + 1]
      content == Content(t, piece.buffer)
      piece_text == Range(content, piece.start, Len(content))
      registry == Registry(t, piece.buffer)
      byte_idx == char_to_byte(piece_text, char_idx)
      after_start == piece.start + byte_idx
      after_end == after_start + piece.len_bytes - byte_idx
      found == IF piece.first_line_break = None THEN None
               ELSE FindIn(registry, piece.first_line_break,
                           after_start, after_end)
      after == [buffer |-> piece.buffer, start |-> after_start,
                first_line_break |->
                  IF found = None THEN None ELSE registry[found + 1][1],
                len_bytes |-> piece.len_bytes - byte_idx,
                len_chars |-> piece.len_chars - char_idx]
      before == [t EXCEPT !.pieces[piece_idx + 1].len_bytes = byte_idx,
                          !.pieces[piece_idx + 1].len_chars = char_idx]
      inserted == insert_piece(before, piece_idx + 1, text)
  IN IF ~StrRangeOk(content, piece.start, Len(content))
     THEN Panicked(t, PanicStrSlice)
     ELSE IF char_idx - 1 >= Len(piece_text) THEN Panicked(t, PanicVecIndex)
     ELSE IF piece_text[char_idx] = CR /\ char_idx >= Len(piece_text)
     THEN Panicked(t, PanicVecIndex)
     ELSE IF piece_text[char_idx] = CR /\ piece_text[char_idx + 1] = LF
     THEN Panicked(t, PanicCrlf)
     ELSE IF piece.first_line_break # None
             /\ piece.first_line_break > Len(registry)
     THEN Panicked(t, PanicSliceIndex)
     ELSE IF inserted.panic # NoPanic THEN inserted
     ELSE [inserted EXCEPT !.pieces = VecInsert(@, piece_idx + 2, after)]

\* PieceTable::insert
insert(t, char_idx, text) ==
  LET n == count_chars(text)
      t1 == [t EXCEPT !.len_chars = @ + n, !.len_bytes = @ + Len(text)]
  IN IF t1.contiguous /\ t1.last_insert.some /\ t1.last_insert.i = char_idx
     THEN extend_piece([t1 EXCEPT !.last_insert.i = @ + n], text, n,
                       t1.last_insert.p)
     ELSE LET at == piece_at_char(t1, char_idx)
              piece_idx == at.piece_idx
              relative_char_idx == at.relative_idx
              t2 == IF relative_char_idx = 0
                    THEN insert_piece(t1, piece_idx, text)
                    ELSE IF relative_char_idx
                            = t1.pieces[piece_idx + 1].len_chars
                    THEN insert_piece(t1, piece_idx + 1, text)
                    ELSE split_piece_and_insert(t1, piece_idx,
                                                relative_char_idx, text)
          IN IF at.panic # NoPanic THEN Panicked(t1, at.panic)
             ELSE IF t2.panic # NoPanic \/ ~t2.contiguous THEN t2
             ELSE [t2 EXCEPT !.last_insert =
                     SomeInsert(char_idx + n,
                                IF relative_char_idx = 0 THEN piece_idx
                                ELSE piece_idx + 1)]

\* PieceTable::simplify_range_bounds; a bound is <<kind, value>> with kind
\* "Included", "Excluded" or "Unbounded"
simplify_range_bounds(t, range) ==
  LET start == IF range.start[1] = "Included" THEN range.start[2]
               ELSE IF range.start[1] = "Excluded" THEN range.start[2] + 1
               ELSE 0
      end == IF range.end[1] = "Included" THEN range.end[2] + 1
             ELSE IF range.end[1] = "Excluded" THEN range.end[2]
             ELSE t.len_chars
  IN <<start, end>>

\* PieceTable::count_piece_line_breaks: the length of the run of entries of
\* registry[first_lb..] whose offset lies in the byte range of the piece
\* (take_while); called only when first_lb <= Len(registry)
count_piece_line_breaks(t, piece_idx) ==
  LET piece == t.pieces[piece_idx + 1]
      registry == Registry(t, piece.buffer)
      first_lb == piece.first_line_break
      In(k) == /\ registry[k + 1][1] >= piece.start
               /\ registry[k + 1][1] < RangeEnd(piece)
      stops == {k \in first_lb..(Len(registry) - 1) : ~In(k)}
      stop == IF stops = {} THEN Len(registry)
              ELSE CHOOSE k \in stops : \A j \in stops : k <= j
  IN IF first_lb = None THEN 0 ELSE stop - first_lb

\* PieceTable::remove_piece
remove_piece(t, piece_idx) ==
  LET piece == t.pieces[piece_idx + 1]
      lbs == count_piece_line_breaks(t, piece_idx)
  IN IF piece.first_line_break # None
        /\ piece.first_line_break > Len(Registry(t, piece.buffer))
     THEN Panicked(t, PanicSliceIndex)
     ELSE [t EXCEPT !.len_bytes = @ - piece.len_bytes,
                    !.len_chars = @ - piece.len_chars,
                    !.len_lines = @ - lbs,
                    !.pieces = VecRemove(@, piece_idx)]

\* PieceTable::trim_piece_end
trim_piece_end(t, piece_idx, start_char_idx) ==
  LET piece == t.pieces[piece_idx + 1]
      content == Content(t, piece.buffer)
      text == Range(content, piece.start, RangeEnd(piece))
      byte_idx == char_to_byte(text, start_char_idx)
  IN IF ~StrRangeOk(content, piece.start, RangeEnd(piece))
     THEN Panicked(t, PanicStrSlice)
     ELSE IF start_char_idx = 0 THEN remove_piece(t, piece_idx)
     ELSE IF start_char_idx < piece.len_chars
     THEN [t EXCEPT
             !.len_chars = @ - (piece.len_chars - start_char_idx),
             !.len_bytes = @ - (piece.len_bytes - byte_idx),
             !.pieces[piece_idx + 1].len_bytes = byte_idx,
             !.pieces[piece_idx + 1].len_chars = start_char_idx]
     ELSE t

\* PieceTable::trim_piece_start
trim_piece_start(t, piece_idx, end_char_idx) ==
  LET piece == t.pieces[piece_idx + 1]
      content == Content(t, piece.buffer)
      text == Range(content, piece.start, RangeEnd(piece))
      registry == Registry(t, piece.buffer)
      byte_idx == char_to_byte(text, end_char_idx)
      found == IF piece.first_line_break = None THEN None
               ELSE FindIn(registry, piece.first_line_break,
                           piece.start + byte_idx, RangeEnd(piece))
      trimmed == [t EXCEPT
                    !.pieces[piece_idx + 1].start = @ + byte_idx,
                    !.pieces[piece_idx + 1].len_bytes = @ - byte_idx,
                    !.pieces[piece_idx + 1].len_chars = @ - end_char_idx,
                    !.len_chars = @ - end_char_idx,
                    !.len_bytes = @ - byte_idx]
  IN IF ~StrRangeOk(content, piece.start, RangeEnd(piece))
     THEN Panicked(t, PanicStrSlice)
     ELSE IF end_char_idx = piece.len_chars THEN remove_piece(t, piece_idx)
     ELSE IF end_char_idx > 0
     THEN IF piece.first_line_break # None
             /\ piece.first_line_break > Len(registry)
          THEN Panicked(trimmed, PanicSliceIndex)
          ELSE [trimmed EXCEPT !.pieces[piece_idx + 1].first_line_break =
                  IF found = None THEN None ELSE registry[found + 1][1]]
     ELSE t

\* PieceTable::remove_within_piece
remove_within_piece(t, piece_idx, start_char_idx, end_char_idx) ==
  LET piece == t.pieces[piece_idx + 1]
      content == Content(t, piece.buffer)
      text == Range(content, piece.start, RangeEnd(piece))
      start_offset == char_to_byte(text, start_char_idx)
      end_offset == char_to_byte(text, end_char_idx)
      new_len_bytes == end_offset - start_offset
      new_len_chars == end_char_idx - start_char_idx
      \* the piece after the three assignments of lines 501-503
      assigned == [piece EXCEPT !.start = @ + start_offset,
                                !.len_bytes = new_len_bytes,
                                !.len_chars = new_len_chars]
      removed_bytes == assigned.len_bytes - new_len_bytes
      removed_chars == assigned.len_chars - new_len_chars
  IN IF ~StrRangeOk(content, piece.start, RangeEnd(piece))
     THEN Panicked(t, PanicStrSlice)
     ELSE IF start_char_idx = 0 /\ end_char_idx = piece.len_chars
     THEN [t EXCEPT !.len_bytes = @ - piece.len_bytes,
                    !.len_chars = @ - piece.len_chars,
                    !.pieces = VecRemove(@, piece_idx)]
     ELSE [t EXCEPT !.pieces[piece_idx + 1] = assigned,
                    !.len_bytes = @ - removed_bytes,
                    !.len_chars = @ - removed_chars]

\* PieceTable::remove_pieces: Vec::drain of the piece range [from, to)
remove_pieces(t, from, to) ==
  IF from > to \/ to > Len(t.pieces) THEN Panicked(t, PanicSliceIndex)
  ELSE [t EXCEPT
          !.len_chars = @ - (SumChars(t.pieces, to) - SumChars(t.pieces, from)),
          !.len_bytes = @ - (SumBytes(t.pieces, to) - SumBytes(t.pieces, from)),
          !.pieces = Range(@, 0, from) \o Range(@, to, Len(@))]

\* a remove that never forgets the last insert
remove_remembering(t, range) ==
  LET se == simplify_range_bounds(t, range)
      start == se[1]
      end == se[2]
      s == piece_at_char(t, start)
      e == piece_at_char(t, end)
      t2 == trim_piece_start(t, e.piece_idx, e.relative_idx)
      t3 == remove_pieces(t2, s.piece_idx + 1, e.piece_idx)
  IN IF start >= end THEN t
     ELSE IF s.panic # NoPanic THEN Panicked(t, s.panic)
     ELSE IF e.panic # NoPanic THEN Panicked(t, e.panic)
     ELSE IF s.piece_idx = e.piece_idx
     THEN remove_within_piece(t, s.piece_idx, s.relative_idx, e.relative_idx)
     ELSE IF t2.panic # NoPanic THEN t2
     ELSE IF t3.panic # NoPanic THEN t3
     ELSE trim_piece_end(t3, s.piece_idx, s.relative_idx)

\* a remove that forgets the last insert before it looks at the range
remove_forgetful(t, range) ==
  LET se == simplify_range_bounds(t, range)
      start == se[1]
      end == se[2]
      t1 == IF t.contiguous /\ t.last_insert.some /\ t.last_insert.i >= start
            THEN [t EXCEPT !.last_insert = NoInsert]
            ELSE t
      s == piece_at_char(t1, start)
      e == piece_at_char(t1, end)
      t2 == trim_piece_start(t1, e.piece_idx, e.relative_idx)
      t3 == remove_pieces(t2, s.piece_idx + 1, e.piece_idx)
  IN IF start >= end THEN t1
     ELSE IF s.panic # NoPanic THEN Panicked(t1, s.panic)
     ELSE IF e.panic # NoPanic THEN Panicked(t1, e.panic)
     ELSE IF s.piece_idx = e.piece_idx
     THEN remove_within_piece(t1, s.piece_idx, s.relative_idx,
                              e.relative_idx)
     ELSE IF t2.panic # NoPanic THEN t2
     ELSE IF t3.panic # NoPanic THEN t3
     ELSE trim_piece_end(t3, s.piece_idx, s.relative_idx)

\* PieceTable::remove
remove(t, range) ==
  LET se == simplify_range_bounds(t, range)
      start == se[1]
      end == se[2]
      t1 == IF t.contiguous /\ t.last_insert.some /\ t.last_insert.i >= start
            THEN [t EXCEPT !.last_insert = NoInsert]
            ELSE t
      s == piece_at_char(t1, start)
      e == piece_at_char(t1, end)
      t2 == trim_piece_start(t1, e.piece_idx, e.relative_idx)
      t3 == remove_pieces(t2, s.piece_idx + 1, e.piece_idx)
  IN IF start >= end THEN t
     ELSE IF s.panic # NoPanic THEN Panicked(t1, s.panic)
     ELSE IF e.panic # NoPanic THEN Panicked(t1, e.panic)
     ELSE IF s.piece_idx = e.piece_idx
     THEN remove_within_piece(t1, s.piece_idx, s.relative_idx,
                              e.relative_idx)
     ELSE IF t2.panic # NoPanic THEN t2
     ELSE IF t3.panic # NoPanic THEN t3
     ELSE trim_piece_end(t3, s.piece_idx, s.relative_idx)

\* ---------------------------------------------------------------------------
\* Reading the document
\* ---------------------------------------------------------------------------
\* whether every piece designates a str range of its buffer
PiecesSliceable(t) ==
  \A k \in 1..Len(t.pieces) :
    StrRangeOk(Content(t, t.pieces[k].buffer), t.pieces[k].start,
               RangeEnd(t.pieces[k]))

\* the concatenation of the byte ranges of the first n pieces
RECURSIVE Concat(_, _)
Concat(t, n) ==
  IF n = 0 THEN <<>>
  ELSE Concat(t, n - 1)
       \o Range(Content(t, t.pieces[n].buffer), t.pieces[n].start,
                RangeEnd(t.pieces[n]))

\* PieceTable::text: the string returned, or the panic raised
text(t) ==
  IF ~PiecesSliceable(t) THEN [panic |-> PanicStrSlice, text |-> <<>>]
  ELSE LET s == Concat(t, Len(t.pieces))
       IN IF t.debug /\ ~(Len(s) = t.len_bytes
                          /\ count_chars(s) = t.len_chars)
          THEN [panic |-> PanicDebugAssert, text |-> s]
          ELSE [panic |-> NoPanic, text |-> s]

\* PieceTable::iter: the sequence of chunks, one per piece
iter(t) ==
  [k \in 1..Len(t.pieces) |->
     Range(Content(t, t.pieces[k].buffer), t.pieces[k].start,
           RangeEnd(t.pieces[k]))]

\* the loop of PieceTable::line from piece p on, with the loop's current_line
\* and start: whether it returned (found) and the two positions, or the
\* panic. A relative index below zero stands for the wrapped usize of a
\* release build, which Slice::iter adds to the start of the piece again.
RECURSIVE LineWalk(_, _, _, _, _)
LineWalk(t, line_idx, p, current_line, start) ==
  IF p >= Len(t.pieces)
  THEN [panic |-> NoPanic, found |-> FALSE, start |-> start, end |-> <<0, 0>>]
  ELSE
    LET piece == t.pieces[p + 1]
        registry == Registry(t, piece.buffer)
        first_lb == piece.first_line_break
        stops == {k \in first_lb..(Len(registry) - 1) :
                    ~(registry[k + 1][1] < RangeEnd(piece))}
        stop == IF stops = {} THEN Len(registry)
                ELSE CHOOSE k \in stops : \A j \in stops : k <= j
        \* the entries take_while yields are Entry(1) .. Entry(n)
        n == stop - first_lb
        Entry(j) == registry[first_lb + j]
        \* the entry that ends the line, and the one the line starts after
        jend == line_idx - current_line + 1
        jstart == line_idx - current_line
        returns == jend >= 1 /\ jend <= n
        visited == IF returns THEN jend ELSE n
        underflow == \E j \in 1..visited : Entry(j)[1] < piece.start
        start2 == IF jstart >= 1 /\ jstart <= n
                  THEN <<p, Entry(jstart)[1] - piece.start
                              + BreakLenBytes(Entry(jstart)[2])>>
                  ELSE start
    IN IF first_lb = None
       THEN LineWalk(t, line_idx, p + 1, current_line, start)
       ELSE IF first_lb > Len(registry)
       THEN [panic |-> PanicSliceIndex, found |-> FALSE, start |-> start,
             end |-> <<0, 0>>]
       ELSE IF t.debug /\ underflow
       THEN [panic |-> PanicOverflow, found |-> FALSE, start |-> start,
             end |-> <<0, 0>>]
       ELSE IF returns
       THEN [panic |-> NoPanic, found |-> TRUE, start |-> start2,
             end |-> <<p, Entry(jend)[1] - piece.start>>]
       ELSE LineWalk(t, line_idx, p + 1, current_line + n, start2)

\* PieceTable::line: the Slice returned (its start and end), or the panic
line(t, line_idx) ==
  LET w == LineWalk(t, line_idx, 0, 0, <<0, 0>>)
      last_idx == Len(t.pieces) - 1
  IN IF ~(line_idx < t.len_lines)
     THEN [panic |-> PanicLineIndex, start |-> <<0, 0>>,
           end |-> <<0, 0>>]
     ELSE IF w.panic # NoPanic \/ w.found
     THEN [panic |-> w.panic, start |-> w.start, end |-> w.end]
     ELSE IF t.debug /\ line_idx # t.len_lines - 1
     THEN [panic |-> PanicDebugAssert, start |-> w.start, end |-> <<0, 0>>]
     ELSE IF Len(t.pieces) = 0
     THEN [panic |-> IF t.debug THEN PanicOverflow ELSE PanicVecIndex,
           start |-> w.start, end |-> <<0, 0>>]
     ELSE [panic |-> NoPanic, start |-> w.start,
           end |-> <<last_idx, t.pieces[last_idx + 1].len_bytes>>]

\* a Slice::iter that takes its first piece from the start of the piece
SliceRangeWhole(piece, i, n, start, end) ==
  IF i = n - 1 THEN <<piece.start, piece.start + end[2]>>
  ELSE <<piece.start, RangeEnd(piece)>>

\* the byte range Slice::iter takes of the i-th piece of its n pieces
SliceRange(piece, i, n, start, end) ==
  IF i = 0 /\ i = n - 1
  THEN <<piece.start + start[2], piece.start + end[2]>>
  ELSE IF i = 0 THEN <<piece.start + start[2], RangeEnd(piece)>>
  ELSE IF i = n - 1 THEN <<piece.start, piece.start + end[2]>>
  ELSE <<piece.start, RangeEnd(piece)>>

\* Slice::iter run to its end: the non-empty chunks in order, or the panic
slice_iter(t, start, end) ==
  LET n == end[1] - start[1] + 1
      piece(i) == t.pieces[start[1] + i + 1]
      range(i) == SliceRange(piece(i), i, n, start, end)
      ok(i) == StrRangeOk(Content(t, piece(i).buffer), range(i)[1],
                          range(i)[2])
      chunk(i) == Range(Content(t, piece(i).buffer), range(i)[1],
                        range(i)[2])
      all == [i \in 1..n |-> chunk(i - 1)]
  IN IF start[1] > end[1] + 1 \/ end[1] >= Len(t.pieces)
     THEN [panic |-> PanicSliceIndex, chunks |-> <<>>]
     ELSE IF \E i \in 0..(n - 1) : ~ok(i)
     THEN [panic |-> PanicStrSlice, chunks |-> <<>>]
     ELSE [panic |-> NoPanic, chunks |-> SelectSeq(all, LAMBDA c : c # <<>>)]

\* line(line_idx).to_string(): the string, or the panic of line or of the
\* iteration of the Slice
line_string(t, line_idx) ==
  LET sl == line(t, line_idx)
      it == slice_iter(t, sl.start, sl.end)
      RECURSIVE cat(_)
      cat(k) == IF k = 0 THEN <<>> ELSE cat(k - 1) \o it.chunks[k]
  IN IF sl.panic # NoPanic THEN [panic |-> sl.panic, text |-> <<>>]
     ELSE IF it.panic # NoPanic THEN [panic |-> it.panic, text |-> <<>>]
     ELSE [panic |-> NoPanic, text |-> cat(Len(it.chunks))]

\* the document held by the variables, as text() of a release build returns it
Text == text(InBuild(Self, FALSE)).text

\* ---------------------------------------------------------------------------
\* The calls
\* ---------------------------------------------------------------------------
\* which branch of insert a call takes
InsertPath(t, char_idx, txt) ==
  LET n == count_chars(txt)
      t1 == [t EXCEPT !.len_chars = @ + n]
      at == piece_at_char(t1, char_idx)
  IN IF t.contiguous /\ t.last_insert.some /\ t.last_insert.i = char_idx
     THEN "extend"
     ELSE IF at.panic # NoPanic THEN "none"
     ELSE IF at.relative_idx = 0 THEN "before"
     ELSE IF at.relative_idx = t.pieces[at.piece_idx + 1].len_chars
     THEN "after"
     ELSE "split"

\* which branch of remove a call takes
RemovePath(t, range) ==
  LET se == simplify_range_bounds(t, range)
      s == piece_at_char(t, se[1])
      e == piece_at_char(t, se[2])
  IN IF se[1] >= se[2] THEN "empty"
     ELSE IF s.panic # NoPanic \/ e.panic # NoPanic THEN "none"
     ELSE IF s.piece_idx # e.piece_idx THEN "spanning"
     ELSE IF s.relative_idx = 0
             /\ e.relative_idx = t.pieces[s.piece_idx + 1].len_chars
     THEN "whole"
     ELSE "within"

\* the ranges a remove call is given on a document of n chars
\* (a..b, ..=b, a.. with an excluded start, and ..)
Ranges(n) ==
  LET idx == 0..(n + IdxSlack)
      Unbounded == <<"Unbounded", 0>>
  IN {[start |-> <<"Included", a>>, end |-> <<"Excluded", b>>] :
        a \in idx, b \in idx}
       \cup {[start |-> Unbounded, end |-> <<"Included", b>>] : b \in idx}
       \cup {[start |-> <<"Excluded", a>>, end |-> Unbounded] : a \in idx}
       \cup {[start |-> Unbounded, end |-> Unbounded]}

Store(t) ==
  /\ pieces' = t.pieces
  /\ buffers' = t.buffers
  /\ len_bytes' = t.len_bytes
  /\ len_chars' = t.len_chars
  /\ len_lines' = t.len_lines
  /\ last_insert' = t.last_insert

Init ==
  \E initial \in InitialTexts, feature \in BOOLEAN :
    LET t == new(initial, feature) IN
      /\ pieces = t.pieces
      /\ buffers = t.buffers
      /\ len_bytes = t.len_bytes
      /\ len_chars = t.len_chars
      /\ len_lines = t.len_lines
      /\ last_insert = t.last_insert
      /\ contiguous_inserts = feature
      /\ call = [op |-> "new", char_idx |-> 0, text |-> initial,
                 start |-> 0, end |-> 0, path |-> "none", panic |-> NoPanic]
      /\ inserts = 0
      /\ removes = 0
      /\ twin = [k |-> 0, filled |-> 0, at |-> 0, joined |-> <<>>,
                 base |-> t, plain |-> new(initial, FALSE)]

\* a call of insert(char_idx, text); a panic ends the run
Insert ==
  /\ call.panic = NoPanic
  /\ inserts + removes < MaxCalls
  /\ \E char_idx \in 0..(len_chars + IdxSlack), txt \in InsertTexts,
        debug \in BOOLEAN :
       LET r == insert(InBuild(Self, debug), char_idx, txt) IN
         /\ Store(r)
         /\ call' = [op |-> "insert", char_idx |-> char_idx, text |-> txt,
                     start |-> 0, end |-> 0,
                     path |-> InsertPath(Self, char_idx, txt),
                     panic |-> r.panic]
  /\ inserts' = inserts + 1
  /\ UNCHANGED <<contiguous_inserts, removes, twin>>

\* a call of remove(range); a panic ends the run
Remove ==
  /\ call.panic = NoPanic
  /\ inserts + removes < MaxCalls
  /\ \E range \in Ranges(len_chars), debug \in BOOLEAN :
       LET r == remove(InBuild(Self, debug), range)
           se == simplify_range_bounds(Self, range)
       IN
         /\ Store(r)
         /\ call' = [op |-> "remove", char_idx |-> 0, text |-> <<>>,
                     start |-> se[1], end |-> se[2],
                     path |-> RemovePath(Self, range), panic |-> r.panic]
  /\ removes' = removes + 1
  /\ UNCHANGED <<contiguous_inserts, inserts, twin>>

Next == Insert \/ Remove

Spec == Init /\ [][Next]_vars

\* the fields of a table, without the build it runs in
Table(t) ==
  [pieces |-> t.pieces, buffers |-> t.buffers, len_bytes |-> t.len_bytes,
   len_chars |-> t.len_chars, len_lines |-> t.len_lines,
   last_insert |-> t.last_insert, contiguous |-> t.contiguous,
   panic |-> t.panic]

\* the run started on the table PieceTable::new returned
FromNew == inserts + removes = twin.k

\* a call made before the run of contiguous inserts starts
Prefix ==
  /\ twin.k = 0
  /\ inserts + removes < MaxPrefix
  /\ (Insert \/ Remove)

\* one insert of a run of contiguous inserts: the first at any legal index,
\* each later one at the end position of the previous one. twin.base is the
\* table of before the run, twin.joined the texts of the run in one string,
\* and twin.plain the table the same calls make of the same new table in a
\* build without the contiguous-inserts feature.
ContiguousInsert ==
  /\ call.panic = NoPanic
  /\ twin.plain.panic = NoPanic
  /\ twin.k < (IF FromNew THEN MaxRun ELSE PairLen)
  /\ \E char_idx \in (IF twin.k = 0 THEN 0..len_chars
                       ELSE {call.char_idx + count_chars(call.text)}),
        txt \in InsertTexts, debug \in BOOLEAN :
       LET r == insert(InBuild(Self, debug), char_idx, txt)
           q == insert(InBuild(twin.plain, debug), char_idx, txt)
       IN
         /\ Store(r)
         /\ call' = [op |-> "insert", char_idx |-> char_idx, text |-> txt,
                     start |-> 0, end |-> 0,
                     path |-> InsertPath(Self, char_idx, txt),
                     panic |-> r.panic]
         /\ twin' = [k |-> twin.k + 1,
                     filled |-> twin.filled + (IF txt = <<>> THEN 0 ELSE 1),
                     at |-> IF twin.k = 0 THEN char_idx ELSE twin.at,
                     joined |-> twin.joined \o txt,
                     base |-> IF twin.k = 0 THEN Self ELSE twin.base,
                     plain |-> IF FromNew THEN Table(q) ELSE twin.plain]
  /\ inserts' = inserts + 1
  /\ UNCHANGED <<contiguous_inserts, removes>>

RunNext == Prefix \/ ContiguousInsert

RunSpec == Init /\ [][RunNext]_vars

\* the positions (piece_idx, byte_idx) of the table: a piece of the list and a
\* char boundary of its bytes, its end included
Positions ==
  {pos \in (0..(Len(pieces) - 1)) \X (0..len_bytes) :
     LET piece == pieces[pos[1] + 1] IN
       /\ pos[2] <= piece.len_bytes
       /\ IsCharBoundary(Range(Content(Self, piece.buffer), piece.start,
                                RangeEnd(piece)), pos[2])}

\* position a is not behind position b
NotBehind(a, b) == a[1] < b[1] \/ (a[1] = b[1] /\ a[2] <= b[2])

\* a call made before a Slice is iterated
SlicePrefix ==
  /\ call.op # "iter"
  /\ inserts + removes < MaxSliceCalls
  /\ (Insert \/ Remove)

\* Slice::new(from, to, table).iter() run to its end, for a start position
\* not behind the end position
Iter ==
  /\ call.panic = NoPanic
  /\ call.op # "iter"
  /\ \E from \in Positions, to \in Positions :
       /\ NotBehind(from, to)
       /\ LET r == slice_iter(Self, from, to) IN
            call' = [op |-> "iter", char_idx |-> 0, text |-> <<>>,
                     start |-> 0, end |-> 0, path |-> "none",
                     panic |-> r.panic, from |-> from, to |-> to,
                     chunks |-> r.chunks]
  /\ UNCHANGED <<pieces, buffers, len_bytes, len_chars, len_lines,
                 last_insert, contiguous_inserts, inserts, removes, twin>>

SliceNext == SlicePrefix \/ Iter

SliceSpec == Init /\ [][SliceNext]_vars

\* no usize of the table goes below zero: no subtraction of insert or remove
\* wraps (release build) or panics (debug build)
NoUnderflow ==
  /\ len_bytes >= 0 /\ len_chars >= 0 /\ len_lines >= 0
  /\ \A k \in 1..Len(pieces) :
       /\ pieces[k].start >= 0
       /\ pieces[k].len_bytes >= 0
       /\ pieces[k].len_chars >= 0

\* ---------------------------------------------------------------------------
\* Properties
\* ---------------------------------------------------------------------------
\* the concatenation of the first n chunks of a sequence of chunks
RECURSIVE Flatten(_, _)
Flatten(chunks, n) ==
  IF n = 0 THEN <<>> ELSE Flatten(chunks, n - 1) \o chunks[n]

\* the string s without its chars [a, b)
DeleteChars(s, a, b) ==
  Range(s, 0, char_to_byte(s, a)) \o Range(s, char_to_byte(s, b), Len(s))

\* the string s with t put in front of its char number a
InsertChars(s, a, t) ==
  Range(s, 0, char_to_byte(s, a)) \o t \o Range(s, char_to_byte(s, a), Len(s))

\* the char position a of s has a CR before it and an LF after it
BetweenCrLf(s, a) ==
  LET b == char_to_byte(s, a)
  IN b > 0 /\ b < Len(s) /\ s[b] = CR /\ s[b + 1] = LF

\* the last call was an insert, a remove, and it returned
Inserted == call.op = "insert" /\ call.panic = NoPanic
Removed == call.op = "remove" /\ call.panic = NoPanic

\* C1: after any sequence of non-panicking insert and remove calls, len_bytes
\* is the sum of the pieces' len_bytes (the byte length of text()), len_chars
\* is the sum of the pieces' len_chars (the char count of text()), and the
\* chunks of iter() concatenate to text().
C1_AggregatesMatchText ==
  call.panic = NoPanic =>
    /\ len_bytes = SumBytes(pieces, Len(pieces))
    /\ len_bytes = Len(Text)
    /\ len_chars = SumChars(pieces, Len(pieces))
    /\ len_chars = count_chars(Text)
    /\ Flatten(iter(Self), Len(pieces)) = Text

\* C2: a remove of the char range [start, end), 0 <= start < end <= len_chars,
\* leaves the text of before the call without exactly the chars [start, end).
C2_RemoveDeletesRange ==
  [][(Removed' /\ call'.start < call'.end /\ call'.end <= len_chars)
       => Text' = DeleteChars(Text, call'.start, call'.end)]_vars

\* C3: on a table reached by inserts only, insert(char_idx, t) with
\* char_idx <= len_chars not between a CR and its LF returns, the text becomes
\* the first char_idx chars, then t, then the rest, and len_chars and
\* len_bytes grow by the size of t.
C3_InsertPlacesText ==
  [][(call'.op = "insert" /\ removes = 0 /\ call'.char_idx <= len_chars
        /\ ~BetweenCrLf(Text, call'.char_idx))
       => /\ call'.panic = NoPanic
          /\ Text' = InsertChars(Text, call'.char_idx, call'.text)
          /\ len_chars' = len_chars + count_chars(call'.text)
          /\ len_bytes' = len_bytes + Len(call'.text)]_vars

\* C4: on every reachable table, an emptied one included, insert(len_chars, t)
\* does not panic and appends t to the document.
C4_InsertAtEndAppends ==
  [][(call'.op = "insert" /\ call'.char_idx = len_chars)
       => call'.panic = NoPanic /\ Text' = Text \o call'.text]_vars

\* C5: removing the char range [0, len_chars) yields the empty document:
\* len_chars = 0, len_bytes = 0, len_lines = 1 and text() = "".
C5_RemoveAllEmpties ==
  [][(call'.op = "remove" /\ call'.start = 0 /\ call'.end = len_chars)
       => /\ call'.panic = NoPanic
          /\ len_chars' = 0
          /\ len_bytes' = 0
          /\ len_lines' = 1
          /\ Text' = <<>>]_vars

\* the number of entries of the registry of the piece's buffer whose byte
\* offset lies inside the byte range of the piece
LineBreaksInside(t, piece) ==
  LET registry == Registry(t, piece.buffer)
  IN Cardinality({k \in 1..Len(registry) :
                    /\ registry[k][1] >= piece.start
                    /\ registry[k][1] < RangeEnd(piece)})

\* the sum of LineBreaksInside over the first n pieces
RECURSIVE SumLineBreaks(_, _)
SumLineBreaks(t, n) ==
  IF n = 0 THEN 0
  ELSE SumLineBreaks(t, n - 1) + LineBreaksInside(t, t.pieces[n])

\* C6: after any sequence of non-panicking insert and remove calls, len_lines
\* is 1 plus the number of line-break registry entries lying inside the byte
\* range of a piece of the piece list, counted once per such piece.
C6_LenLinesCountsBreaks ==
  call.panic = NoPanic =>
    len_lines = 1 + SumLineBreaks(Self, Len(pieces))

Min(a, b) == IF a < b THEN a ELSE b

\* C8: remove clamps its range to [0, len_chars]: a remove whose end or start
\* exceeds len_chars does not panic and leaves the table as the remove of the
\* range cut at len_chars leaves it.
C8_RemoveClampsRange ==
  [][(call'.op = "remove" /\ call'.start < call'.end
        /\ call'.end > len_chars)
       => LET cut == [start |-> <<"Included", Min(call'.start, len_chars)>>,
                      end |-> <<"Excluded", len_chars>>]
              r == remove(InBuild(Self, FALSE), cut)
          IN /\ call'.panic = NoPanic
             /\ pieces' = r.pieces
             /\ buffers' = r.buffers
             /\ len_bytes' = r.len_bytes
             /\ len_chars' = r.len_chars
             /\ len_lines' = r.len_lines
             /\ last_insert' = r.last_insert]_vars

\* C9: a panicking insert or remove leaves no partial mutation: where the
\* panic is raised, pieces, both buffers, len_bytes, len_chars, len_lines and
\* last_insert have their values of before the call.
C9_PanicLeavesTableUntouched ==
  [][call'.panic # NoPanic
       => /\ pieces' = pieces
          /\ buffers' = buffers
          /\ len_bytes' = len_bytes
          /\ len_chars' = len_chars
          /\ len_lines' = len_lines
          /\ last_insert' = last_insert]_vars

\* C10: insert(char_idx, t) with char_idx > len_chars (len_chars of before the
\* call) panics with the "index out of bounds" assertion of piece_at_char and
\* never returns normally.
C10_InsertPastEndPanics ==
  [][(call'.op = "insert" /\ call'.char_idx > len_chars)
       => call'.panic = PanicIndexOutOfBounds]_vars

\* the line breaks of the document, as one scan of its text finds them
DocBreaks == line_breaks(Text, <<>>, 0).v

BreakString(ty) == IF ty = "Crlf" THEN <<CR, LF>> ELSE <<LF>>

\* line(0), break 1, line(1), ..., break k, line(k) of a build
RECURSIVE JoinLines(_, _)
JoinLines(t, k) ==
  IF k = 0 THEN line_string(t, 0).text
  ELSE JoinLines(t, k - 1) \o BreakString(DocBreaks[k][2])
       \o line_string(t, k).text

\* C7: on every table reachable by insert and remove calls, line(k) returns
\* for every k < len_lines, and line(0) .. line(len_lines - 1) joined by the
\* line-break strings of the document reproduce text().
C7_LinesReproduceText ==
  call.panic = NoPanic =>
    \A debug \in BOOLEAN :
      LET t == InBuild(Self, debug) IN
        /\ \A k \in 0..(len_lines - 1) : line_string(t, k).panic = NoPanic
        /\ Len(DocBreaks) = len_lines - 1
        /\ JoinLines(t, len_lines - 1) = Text

\* the piece and the place inside it that a call of insert(char_idx, txt)
\* on the table looks up
SplitPoint(char_idx, txt) ==
  piece_at_char([Self EXCEPT !.len_chars = @ + count_chars(txt)], char_idx)

\* the text of piece number piece_idx (from 0) of the table
PieceText(piece_idx) ==
  LET piece == pieces[piece_idx + 1]
  IN Range(Content(Self, piece.buffer), piece.start, RangeEnd(piece))

\* C11: an insert strictly inside a piece panics if and only if the insert
\* point lies between a CR byte and the LF byte that follows it in that piece,
\* whatever the piece holds, multi-byte chars before the insert point
\* included.
C11_SplitPanicsIffBetweenCrLf ==
  [][(call'.op = "insert" /\ call'.path = "split")
       => LET at == SplitPoint(call'.char_idx, call'.text)
          IN (call'.panic # NoPanic)
               <=> BetweenCrLf(PieceText(at.piece_idx), at.relative_idx)]_vars

\* C12: for a run of inserts on a new table in which each insert is at the end
\* position of the previous one, the build with the contiguous-inserts fast
\* path ends as the build without it does and with the same text, and holds
\* strictly fewer pieces once the run has two non-empty inserts.
C12_FastPathSameText ==
  (contiguous_inserts /\ FromNew /\ twin.k >= 1) =>
    /\ call.panic = twin.plain.panic
    /\ call.panic = NoPanic =>
         /\ Text = text(InBuild(twin.plain, FALSE)).text
         /\ twin.filled >= 2 => Len(pieces) < Len(twin.plain.pieces)

\* the run of tests::contiguous_insertion: five one-char inserts, the first
\* inside the two-char initial piece, leave 3 pieces with the fast path and
\* 7 without
C12_Witness ==
  /\ contiguous_inserts /\ FromNew /\ twin.k = 5 /\ twin.filled = 5
  /\ call.panic = NoPanic /\ call.path = "extend"
  /\ twin.base.pieces[1].len_chars = 2 /\ twin.at = 1
  /\ Len(pieces) = 3 /\ Len(twin.plain.pieces) = 7

\* the table a single insert of the joined texts of the run, at the index of
\* its first insert, makes of the table of before the run
JoinedInsert(debug) == insert(InBuild(twin.base, debug), twin.at, twin.joined)

\* C13: insert is additive: on every reachable table and at every legal index
\* i, insert(i, a) followed by insert(i + count_chars(a), b) leaves the text,
\* len_bytes and len_chars that the single insert(i, a + b) leaves.
C13_InsertAdditive ==
  (twin.k = 2 /\ call.panic = NoPanic) =>
    \A debug \in BOOLEAN :
      LET j == JoinedInsert(debug) IN
        /\ j.panic = NoPanic
        /\ text(j).text = Text
        /\ j.len_bytes = len_bytes
        /\ j.len_chars = len_chars

\* after a remove, two non-empty inserts of which the second took the fast
\* path, and the single insert of the joined text returns too
C13_Witness ==
  /\ twin.k = 2 /\ twin.filled = 2 /\ removes = 1
  /\ call.panic = NoPanic /\ call.path = "extend"
  /\ twin.at > 0 /\ twin.at < twin.base.len_chars
  /\ JoinedInsert(TRUE).panic = NoPanic

\* C14: a remove whose range is empty (start >= end once normalised, as 5..0
\* or 3..3) returns and changes nothing: pieces, both buffers, text(),
\* len_chars, len_bytes, len_lines and last_insert are as before the call.
C14_EmptyRemoveIsNoOp ==
  [][(call'.op = "remove" /\ call'.start >= call'.end)
       => /\ call'.panic = NoPanic
          /\ pieces' = pieces
          /\ buffers' = buffers
          /\ Text' = Text
          /\ len_chars' = len_chars
          /\ len_bytes' = len_bytes
          /\ len_lines' = len_lines
          /\ last_insert' = last_insert]_vars

\* a remove of a reversed range on a table of several pieces that remembers
\* its last insert at or after the start of the range
C14_Witness ==
  /\ call.op = "remove" /\ call.path = "empty" /\ call.start > call.end
  /\ Len(pieces) >= 2
  /\ last_insert.some /\ last_insert.i >= call.start

\* C15: the table PieceTable::new(s) returns holds exactly one piece, which
\* covers the whole original buffer (start 0, len_bytes = len(s), len_chars =
\* count_chars(s), first_line_break = Some(0) exactly when the original
\* registry is non-empty); len_lines is the registry size plus 1, last_insert
\* is None and text() returns s.
C15_NewHoldsOnePiece ==
  call.op = "new" =>
    /\ Len(pieces) = 1
    /\ pieces[1].buffer = "Original"
    /\ pieces[1].start = 0
    /\ pieces[1].len_bytes = Len(call.text)
    /\ RangeEnd(pieces[1]) = Len(buffers.original.content)
    /\ pieces[1].len_chars = count_chars(call.text)
    /\ pieces[1].first_line_break =
         (IF buffers.original.line_breaks # <<>> THEN 0 ELSE None)
    /\ len_lines = Len(buffers.original.line_breaks) + 1
    /\ ~last_insert.some
    /\ Text = call.text

\* a new table of a text with a multi-byte char and a line break
C15_Witness ==
  /\ call.op = "new"
  /\ buffers.original.line_breaks # <<>>
  /\ pieces[1].first_line_break = 0
  /\ len_chars < len_bytes

\* the index of the first registry entry of the piece's buffer whose byte
\* offset lies inside the byte range of the piece, None when there is none
FirstBreakInside(t, piece) ==
  LET registry == Registry(t, piece.buffer)
      inside == {k \in 1..Len(registry) :
                   /\ registry[k][1] >= piece.start
                   /\ registry[k][1] < RangeEnd(piece)}
  IN IF inside = {} THEN None
     ELSE (CHOOSE k \in inside : \A j \in inside : k <= j) - 1

\* C16: after any sequence of non-panicking insert and remove calls, the
\* first_line_break of every piece is Some(i) with i the smallest registry
\* index whose byte offset lies inside the byte range of the piece, and None
\* when no entry lies inside; so too for the pieces that
\* split_piece_and_insert, trim_piece_start and trim_piece_end make.
C16_FirstLineBreakIsRegistryIndex ==
  call.panic = NoPanic =>
    \A k \in 1..Len(pieces) :
      pieces[k].first_line_break = FirstBreakInside(Self, pieces[k])

\* C17: whenever last_insert is Some((i, p)), p is an index of the piece list,
\* pieces[p] is a piece of the add buffer whose byte range ends at the end of
\* the add buffer, and the len_chars of pieces[0..=p] sum to i; so the debug
\* assertions of extend_piece never fail and an insert that takes the fast
\* path puts its text at char position i.
C17_LastInsertNamesExtensiblePiece ==
  [][/\ call'.panic # PanicDebugAssert
     /\ (call'.panic = NoPanic /\ last_insert'.some) =>
          /\ last_insert'.p < Len(pieces')
          /\ pieces'[last_insert'.p + 1].buffer = "Add"
          /\ RangeEnd(pieces'[last_insert'.p + 1]) = Len(buffers'.add.content)
          /\ SumChars(pieces', last_insert'.p + 1) = last_insert'.i
     /\ call'.path = "extend" =>
          /\ call'.panic = NoPanic
          /\ Text' = InsertChars(Text, last_insert.i, call'.text)]_vars

\* a remove behind the last insert that took chars away and left last_insert
\* in place
C17_Witness ==
  /\ call.op = "remove" /\ call.panic = NoPanic
  /\ call.path \in {"within", "whole", "spanning"}
  /\ last_insert.some /\ last_insert.p > 0

\* the range of a piece: its buffer, start and lengths
Extent(piece) ==
  [buffer |-> piece.buffer, start |-> piece.start,
   len_bytes |-> piece.len_bytes, len_chars |-> piece.len_chars]

\* the ranges of the first n pieces of a piece list
Extents(ps) == [k \in 1..Len(ps) |-> Extent(ps[k])]

\* the two ranges of a piece that its chars [sc, ec) lie between
Siblings(piece, sc, ec) ==
  LET txt == Range(Content(Self, piece.buffer), piece.start, RangeEnd(piece))
      so == char_to_byte(txt, sc)
      eo == char_to_byte(txt, ec)
  IN << [buffer |-> piece.buffer, start |-> piece.start,
         len_bytes |-> so, len_chars |-> sc],
        [buffer |-> piece.buffer, start |-> piece.start + eo,
         len_bytes |-> piece.len_bytes - eo,
         len_chars |-> piece.len_chars - ec] >>

\* C18: a remove whose char range [sc, ec) lies inside one piece and is not
\* the whole piece replaces the piece by two siblings, `before` (same buffer
\* and start, the first sc chars) and `after` (start moved by the byte offset
\* of ec, the chars left); the piece list holds the kept parts, and len_bytes
\* and len_chars go down by exactly the size of what was removed.
C18_RemoveWithinSplitsPiece ==
  [][(call'.op = "remove" /\ call'.path = "within")
       => LET s == piece_at_char(Self, call'.start)
              e == piece_at_char(Self, call'.end)
              piece == pieces[s.piece_idx + 1]
              two == Siblings(piece, s.relative_idx, e.relative_idx)
          IN /\ call'.panic = NoPanic
             /\ Extents(pieces') =
                  Extents(Range(pieces, 0, s.piece_idx)) \o two
                    \o Extents(Range(pieces, s.piece_idx + 1, Len(pieces)))
             /\ Text' = DeleteChars(Text, call'.start, call'.end)
             /\ len_chars' = len_chars - (call'.end - call'.start)
             /\ len_bytes' = len_bytes
                  - (piece.len_bytes - two[1].len_bytes - two[2].len_bytes)
    ]_vars

\* the ranges a remove of the chars from sc of piece sp up to ec of piece ep
\* keeps of the pieces sp .. ep: the head of sp and the tail of ep, each only
\* when it keeps something of the piece
KeptOfSpan(sp, sc, ep, ec) ==
  LET first == pieces[sp + 1]
      last == pieces[ep + 1]
      head == Siblings(first, sc, first.len_chars)[1]
      tail == Siblings(last, 0, ec)[2]
  IN (IF sc = 0 THEN <<>> ELSE <<head>>)
       \o (IF ec = last.len_chars THEN <<>> ELSE <<tail>>)

\* C19: a remove whose start and end fall in different pieces sp < ep trims
\* the head of ep up to ec, drops the pieces strictly between, and trims the
\* tail of sp from sc on (sp or ep goes entirely when nothing of it is kept);
\* the pieces before sp and after ep are unchanged, the text is the old text
\* without the chars [start, end), and len_bytes and len_chars go down by
\* exactly the size of what was removed.
C19_RemoveSpanningTrims ==
  [][(call'.op = "remove" /\ call'.path = "spanning")
       => LET s == piece_at_char(Self, call'.start)
              e == piece_at_char(Self, call'.end)
              kept == DeleteChars(Text, call'.start, call'.end)
          IN /\ call'.panic = NoPanic
             /\ Extents(pieces') =
                  Extents(Range(pieces, 0, s.piece_idx))
                    \o KeptOfSpan(s.piece_idx, s.relative_idx,
                                  e.piece_idx, e.relative_idx)
                    \o Extents(Range(pieces, e.piece_idx + 1, Len(pieces)))
             /\ Range(pieces', 0, s.piece_idx) = Range(pieces, 0, s.piece_idx)
             /\ Text' = kept
             /\ len_chars' = len_chars - (call'.end - call'.start)
             /\ len_bytes' = len_bytes - (Len(Text) - Len(kept))]_vars

\* the registry entries of the line breaks of text from its byte number i
\* (from 1) on: an LF not preceded by CR is an Lf entry at its offset, a CR
\* followed by LF is one Crlf entry at the offset of the CR
RECURSIVE BreaksFrom(_, _, _)
BreaksFrom(txt, i, base_idx) ==
  IF i > Len(txt) THEN <<>>
  ELSE (IF txt[i] = LF /\ (i = 1 \/ txt[i - 1] # CR)
        THEN << <<base_idx + i - 1, "Lf">> >>
        ELSE IF txt[i] = CR /\ i < Len(txt) /\ txt[i + 1] = LF
        THEN << <<base_idx + i - 1, "Crlf">> >>
        ELSE <<>>)
       \o BreaksFrom(txt, i + 1, base_idx)

\* C20: line_breaks(text, v, base) returns exactly the number of entries it
\* appended to v, and appends an Lf entry at base + offset for each LF not
\* preceded by CR and one Crlf entry at the offset of the CR for each CR
\* followed by LF; a CR not followed by LF adds no entry and does not count.
\* Checked on the scan every returning insert makes of its text.
C20_LineBreaksCountsItsEntries ==
  [][(call'.op = "insert" /\ call'.panic = NoPanic)
       => LET old == buffers.add.line_breaks
              base_idx == Len(buffers.add.content)
              scanned == line_breaks(call'.text, old, base_idx)
          IN /\ buffers'.add.line_breaks = scanned.v
             /\ len_lines' = len_lines + scanned.n
             /\ scanned.v = old \o BreaksFrom(call'.text, 1, base_idx)
             /\ scanned.n = Len(scanned.v) - Len(old)]_vars

\* the byte offsets of a registry go strictly up
StrictlyIncreasing(registry) ==
  \A k \in 1..(Len(registry) - 1) : registry[k][1] < registry[k + 1][1]

\* C21: after any sequence of inserts, contiguous ones of which one ends with
\* CR and the next starts with LF included, the registry of the add buffer is
\* what one scan of the whole add buffer from offset 0 finds: its offsets go
\* strictly up, and a CR followed by LF in the add buffer is one Crlf entry
\* and nothing else.
C21_AddRegistryIsOneScan ==
  (call.panic = NoPanic /\ removes = 0) =>
    /\ buffers.add.line_breaks = line_breaks(buffers.add.content, <<>>, 0).v
    /\ StrictlyIncreasing(buffers.add.line_breaks)

\* the places, as buffer and byte offset, where a non-empty piece of the piece
\* list ps begins or ends
PieceEdges(ps) ==
  UNION {{<<ps[k].buffer, ps[k].start>>, <<ps[k].buffer, RangeEnd(ps[k])>>} :
           k \in {j \in 1..Len(ps) : ps[j].len_bytes > 0}}

\* the places between the CR and the LF of a Crlf entry of a registry
CrlfMiddles(buffer) ==
  LET registry == Registry(Self, buffer)
  IN {<<buffer, registry[k][1] + 1>> :
        k \in {j \in 1..Len(registry) : registry[j][2] = "Crlf"}}

\* the places where a piece of ps begins or ends inside a registered CRLF
Severed(ps) ==
  PieceEdges(ps) \cap (CrlfMiddles("Original") \cup CrlfMiddles("Add"))

\* C22: no remove severs a CRLF pair: after a remove that returns, no piece
\* ends right after a CR whose LF is registered with it as one Crlf entry and
\* no piece starts at such an LF, unless a piece did so before the remove.
C22_RemoveKeepsCrlfWhole ==
  [][(call'.op = "remove" /\ call'.panic = NoPanic)
       => Severed(pieces') \subseteq Severed(pieces)]_vars

\* C23: after any sequence of non-panicking insert and remove calls, every
\* piece of the piece list ends inside the buffer it references (start +
\* len_bytes <= length of the buffer) and its len_chars is the number of chars
\* of the bytes start .. start + len_bytes of that buffer.
C23_PiecesLieInsideBuffers ==
  call.panic = NoPanic =>
    \A k \in 1..Len(pieces) :
      LET content == Content(Self, pieces[k].buffer) IN
        /\ RangeEnd(pieces[k]) <= Len(content)
        /\ pieces[k].len_chars =
             count_chars(Range(content, pieces[k].start, RangeEnd(pieces[k])))

\* a spanning remove has trimmed a piece that holds a char of two bytes and
\* no longer begins where its buffer begins
C23_Witness ==
  /\ call.op = "remove" /\ call.path = "spanning" /\ call.panic = NoPanic
  /\ \E k \in 1..Len(pieces) :
       /\ pieces[k].start > 0
       /\ pieces[k].len_chars < pieces[k].len_bytes

\* s is a prefix of t
IsPrefix(s, t) == Len(s) <= Len(t) /\ Range(t, 0, Len(s)) = s

\* the bytes a piece designates in the buffers bs
Bytes(bs, piece) ==
  Range(IF piece.buffer = "Original" THEN bs.original.content
        ELSE bs.add.content,
        piece.start, RangeEnd(piece))

\* C24: the buffers are append-only: no call changes the original buffer or
\* its registry; insert only appends to the add buffer and to its registry
\* (what they held stays a prefix of what they hold); remove changes no buffer
\* and no registry; so the bytes a piece designates never change while the
\* piece stays in the list.
C24_BuffersAppendOnly ==
  [][/\ buffers'.original = buffers.original
     /\ IsPrefix(buffers.add.content, buffers'.add.content)
     /\ IsPrefix(buffers.add.line_breaks, buffers'.add.line_breaks)
     /\ call'.op = "remove" => buffers' = buffers
     /\ \A k \in 1..Len(pieces) :
          (\E j \in 1..Len(pieces') : pieces'[j] = pieces[k])
            => Bytes(buffers', pieces[k]) = Bytes(buffers, pieces[k])]_vars

\* an insert after a remove has appended text and a registry entry to an add
\* buffer that held both already
C24_Witness ==
  /\ call.op = "insert" /\ call.panic = NoPanic /\ removes >= 1
  /\ Len(buffers.add.content) > Len(call.text)
  /\ Len(buffers.add.line_breaks) >= 2
  /\ buffers.add.line_breaks[Len(buffers.add.line_breaks)][1]
       >= Len(buffers.add.content) - Len(call.text)

\* C25: an insert that does not take the fast path and returns adds exactly
\* one piece to the piece list when char_idx falls on a piece boundary
\* (relative index 0 or the len_chars of the piece) and leaves every piece of
\* before unchanged; it adds exactly two pieces when char_idx falls strictly
\* inside a piece, and the parts before and after the new piece together cover
\* exactly the byte range of that piece.
C25_InsertAddsOneOrTwoPieces ==
  [][(call'.op = "insert" /\ call'.panic = NoPanic)
       => LET at == SplitPoint(call'.char_idx, call'.text)
              p == at.piece_idx
                     + (IF call'.path = "after" THEN 1 ELSE 0)
              old == pieces[p + 1]
          IN /\ call'.path \in {"before", "after"} =>
                  /\ Len(pieces') = Len(pieces) + 1
                  /\ VecRemove(pieces', p) = pieces
             /\ call'.path = "split" =>
                  /\ Len(pieces') = Len(pieces) + 2
                  /\ Range(pieces', 0, p) = Range(pieces, 0, p)
                  /\ Range(pieces', p + 3, Len(pieces'))
                       = Range(pieces, p + 1, Len(pieces))
                  /\ pieces'[p + 1].buffer = old.buffer
                  /\ pieces'[p + 3].buffer = old.buffer
                  /\ pieces'[p + 1].start = old.start
                  /\ RangeEnd(pieces'[p + 1]) = pieces'[p + 3].start
                  /\ RangeEnd(pieces'[p + 3]) = RangeEnd(old)
                  /\ pieces'[p + 1].len_bytes > 0
                  /\ pieces'[p + 3].len_bytes > 0]_vars

\* an insert has split a piece behind a char of two bytes in a list of
\* several pieces
C25_Witness ==
  /\ call.op = "insert" /\ call.path = "split" /\ call.panic = NoPanic
  /\ Len(pieces) >= 4
  /\ \E k \in 1..(Len(pieces) - 2) :
       /\ pieces[k].len_chars < pieces[k].len_bytes
       /\ pieces[k + 2].buffer = pieces[k].buffer
       /\ pieces[k + 2].start = RangeEnd(pieces[k])

\* the chunks the Slice from (sp, sb) to (ep, eb) is to yield: the bytes sb
\* .. eb of the piece when sp = ep, else the bytes of pieces[sp] from sb on,
\* the pieces between, and the bytes of pieces[ep] up to eb; the empty ones
\* left out
ChunksBetween(from, to) ==
  LET sp == from[1]
      ep == to[1]
      whole == iter(Self)
      part(p) == IF p = sp /\ p = ep THEN Range(whole[p + 1], from[2], to[2])
                 ELSE IF p = sp
                 THEN Range(whole[p + 1], from[2], Len(whole[p + 1]))
                 ELSE IF p = ep THEN Range(whole[p + 1], 0, to[2])
                 ELSE whole[p + 1]
  IN SelectSeq([i \in 1..(ep - sp + 1) |-> part(sp + i - 1)],
               LAMBDA c : c # <<>>)

\* C26: for a Slice from (sp, sb), inclusive, to (ep, eb), exclusive, with
\* sp <= ep, Slice::iter yields in order the bytes sb..eb of the piece when
\* sp = ep, and else the bytes of pieces[sp] from sb to its end, every whole
\* piece between sp and ep, and the bytes of pieces[ep] from its start to eb;
\* it yields no empty chunk, and the chunks concatenate to the bytes of the
\* document between the two positions.
\* Checked for positions on char boundaries of their pieces, the start not
\* behind the end.
C26_SliceIterYieldsRange ==
  call.op = "iter" =>
    /\ call.panic = NoPanic
    /\ call.chunks = ChunksBetween(call.from, call.to)
    /\ \A k \in 1..Len(call.chunks) : call.chunks[k] # <<>>
    /\ Flatten(call.chunks, Len(call.chunks))
         = Range(Text, SumBytes(pieces, call.from[1]) + call.from[2],
                 SumBytes(pieces, call.to[1]) + call.to[2])

\* a Slice iterated from inside one piece to inside a later one, over an
\* empty piece between them that yields no chunk
C26_Witness ==
  /\ call.op = "iter" /\ call.panic = NoPanic
  /\ call.to[1] >= call.from[1] + 2
  /\ call.from[2] > 0
  /\ call.to[2] < pieces[call.to[1] + 1].len_bytes
  /\ Len(call.chunks) < call.to[1] - call.from[1] + 1
  /\ Len(call.chunks) >= 2

====
